---- MODULE Spec2Model ----
(***************************************************************************)
(* Customer identity resolution of the multi-agent ticket assistant:       *)
(* CustomerFuzzySearch (app/core/fuzzy_search.py) together with the three  *)
(* fuzzywuzzy metrics it calls (difflib backend), and the workflow state   *)
(* of the Streamlit UI (app/ui) with PlanningWorkflowState.                *)
(*                                                                         *)
(* A Python str is a sequence of one-character strings.  A fuzz metric is  *)
(* its integer 0..100 value.  A consensus or confidence score is a Python  *)
(* float: it is kept as the exact binary64 value, a multi-limb natural     *)
(* scaled by 2^75, and every division, product and sum is rounded to 53    *)
(* bits, to nearest, ties to even, as the interpreter rounds it.           *)
(***************************************************************************)
EXTENDS Integers, Sequences, FiniteSets, TLC

(***************************************************************************)
(* Python str primitives                                                   *)
(***************************************************************************)
Uppers == <<"A","B","C","D","E","F","G","H","I","J","K","L","M",
            "N","O","P","Q","R","S","T","U","V","W","X","Y","Z">>
Lowers == <<"a","b","c","d","e","f","g","h","i","j","k","l","m",
            "n","o","p","q","r","s","t","u","v","w","x","y","z">>
Digits == <<"0","1","2","3","4","5","6","7","8","9">>

Min(a, b) == IF a <= b THEN a ELSE b
Max(a, b) == IF a >= b THEN a ELSE b

IsUpper(c) == \E i \in 1..26 : Uppers[i] = c
IsLower(c) == \E i \in 1..26 : Lowers[i] = c
IsDigit(c) == \E i \in 1..10 : Digits[i] = c
IsAlpha(c) == IsUpper(c) \/ IsLower(c)
IsSpace(c) == c = " "

LowerChar(c) == IF IsUpper(c) THEN Lowers[CHOOSE i \in 1..26 : Uppers[i] = c] ELSE c
UpperChar(c) == IF IsLower(c) THEN Uppers[CHOOSE i \in 1..26 : Lowers[i] = c] ELSE c

\* code point order of the characters the model uses (ASCII)
CharCode(c) ==
  IF c = " " THEN 32
  ELSE IF c = "&" THEN 38
  ELSE IF c = "." THEN 46
  ELSE IF IsDigit(c) THEN 47 + (CHOOSE i \in 1..10 : Digits[i] = c)
  ELSE IF c = "@" THEN 64
  ELSE IF IsUpper(c) THEN 64 + (CHOOSE i \in 1..26 : Uppers[i] = c)
  ELSE IF IsLower(c) THEN 96 + (CHOOSE i \in 1..26 : Lowers[i] = c)
  ELSE 127

\* s[lo:hi] with 1-based inclusive positions
Slice(s, lo, hi) == IF lo > hi THEN <<>> ELSE SubSeq(s, lo, hi)

\* the sequence f[1], ..., f[n] as a tuple
Tuple(f, n) == Slice(f, 1, n)

\* str.lower()
Lower(s) == Tuple([i \in 1..Len(s) |-> LowerChar(s[i])], Len(s))

RECURSIVE LStrip(_)
LStrip(s) == IF s # <<>> /\ IsSpace(Head(s)) THEN LStrip(Tail(s)) ELSE s

RECURSIVE RStrip(_)
RStrip(s) == IF s # <<>> /\ IsSpace(s[Len(s)]) THEN RStrip(Slice(s, 1, Len(s) - 1)) ELSE s

\* str.strip()
Strip(s) == RStrip(LStrip(s))

\* str.endswith(suf)
EndsWith(s, suf) ==
  /\ Len(suf) <= Len(s)
  /\ Slice(s, Len(s) - Len(suf) + 1, Len(s)) = suf

\* str.split(): the maximal runs of non-whitespace, in order
RECURSIVE SplitFrom(_, _, _)
SplitFrom(s, i, cur) ==
  IF i > Len(s) THEN (IF cur = <<>> THEN <<>> ELSE <<cur>>)
  ELSE IF IsSpace(s[i])
       THEN (IF cur = <<>> THEN <<>> ELSE <<cur>>) \o SplitFrom(s, i + 1, <<>>)
       ELSE SplitFrom(s, i + 1, Append(cur, s[i]))

Split(s) == SplitFrom(s, 1, <<>>)

\* str.split(sep) for a one-character separator: all fields, empty ones included
RECURSIVE SplitOnFrom(_, _, _, _)
SplitOnFrom(s, sep, i, cur) ==
  IF i > Len(s) THEN <<cur>>
  ELSE IF s[i] = sep
       THEN <<cur>> \o SplitOnFrom(s, sep, i + 1, <<>>)
       ELSE SplitOnFrom(s, sep, i + 1, Append(cur, s[i]))

SplitOn(s, sep) == SplitOnFrom(s, sep, 1, <<>>)

\* sep in s
Contains(s, c) == \E i \in 1..Len(s) : s[i] = c

\* str.title(): a cased character is upper-cased after an uncased one and
\* lower-cased after a cased one
Title(s) ==
  Tuple([i \in 1..Len(s) |->
           IF i > 1 /\ IsAlpha(s[i - 1]) THEN LowerChar(s[i]) ELSE UpperChar(s[i])],
        Len(s))

\* str comparison (<) by code point, as sorted() uses it
RECURSIVE StrLess(_, _)
StrLess(a, b) ==
  IF b = <<>> THEN FALSE
  ELSE IF a = <<>> THEN TRUE
  ELSE IF CharCode(Head(a)) # CharCode(Head(b)) THEN CharCode(Head(a)) < CharCode(Head(b))
  ELSE StrLess(Tail(a), Tail(b))

\* sorted(tokens): insertion into an already sorted list
RECURSIVE InsertSorted(_, _)
InsertSorted(t, ws) ==
  IF ws = <<>> THEN <<t>>
  ELSE IF StrLess(t, Head(ws)) THEN <<t>> \o ws
  ELSE <<Head(ws)>> \o InsertSorted(t, Tail(ws))

RECURSIVE Sorted(_)
Sorted(ws) == IF ws = <<>> THEN <<>> ELSE InsertSorted(Head(ws), Sorted(Tail(ws)))

\* " ".join(ws)
RECURSIVE JoinSpace(_)
JoinSpace(ws) ==
  IF ws = <<>> THEN <<>>
  ELSE IF Len(ws) = 1 THEN Head(ws)
  ELSE Head(ws) \o <<" ">> \o JoinSpace(Tail(ws))

\* set(s.split())
WordSet(s) == {Split(s)[i] : i \in 1..Len(Split(s))}

(***************************************************************************)
(* fuzzywuzzy.fuzz with difflib.SequenceMatcher (no junk; autojunk only    *)
(* concerns sequences of 200 or more items)                                *)
(***************************************************************************)

\* int(round(num/den)) for num >= 0, den > 0: Python 3 rounds halves to even
RoundHalfEven(num, den) ==
  LET q == num \div den
      r == num % den
  IN IF 2 * r < den THEN q
     ELSE IF 2 * r > den THEN q + 1
     ELSE IF q % 2 = 0 THEN q ELSE q + 1

\* length of the common run of a from i and b from j, inside a[..ahi], b[..bhi]
RECURSIVE CommonLen(_, _, _, _, _, _)
CommonLen(a, b, i, j, ahi, bhi) ==
  IF i > ahi \/ j > bhi THEN 0
  ELSE IF a[i] # b[j] THEN 0
  ELSE 1 + CommonLen(a, b, i + 1, j + 1, ahi, bhi)

SetMax(S) == CHOOSE v \in S : \A w \in S : w <= v

\* run[i][j]: the common run from a[alo + i - 1] and b[blo + j - 1]
RunTable(a, b, alo, ahi, blo, bhi) ==
  Tuple([i \in 1..(ahi - alo + 1) |->
           Tuple([j \in 1..(bhi - blo + 1) |->
                    CommonLen(a, b, alo + i - 1, blo + j - 1, ahi, bhi)],
                 bhi - blo + 1)],
        ahi - alo + 1)

LongestRun(run) == SetMax({run[i][j] : i \in 1..Len(run), j \in 1..Len(run[1])})

\* the first row of the table that holds a run of k, and the first column of
\* a row that does
FirstRow(run, k) ==
  CHOOSE i \in 1..Len(run) :
    /\ \E j \in 1..Len(run[i]) : run[i][j] = k
    /\ \A i2 \in 1..(i - 1) : \A j \in 1..Len(run[i2]) : run[i2][j] # k

FirstColumn(row, k) ==
  CHOOSE j \in 1..Len(row) : row[j] = k /\ \A j2 \in 1..(j - 1) : row[j2] # k

BlockAt(run, k, i, alo, blo) == <<alo + i - 1, blo + FirstColumn(run[i], k) - 1, k>>

LongestIn(run, k, alo, blo) ==
  IF k = 0 THEN <<alo, blo, 0>> ELSE BlockAt(run, k, FirstRow(run, k), alo, blo)

\* SequenceMatcher.find_longest_match: <<i, j, k>>, the longest block, the one
\* starting earliest in a and then earliest in b among the longest
FindLongestMatch(a, b, alo, ahi, blo, bhi) ==
  LongestIn(RunTable(a, b, alo, ahi, blo, bhi),
            LongestRun(RunTable(a, b, alo, ahi, blo, bhi)), alo, blo)

\* SequenceMatcher.get_matching_blocks without the closing dummy block: the
\* set of <<i, j, k>> found left and right of each longest match m
RECURSIVE MatchingBlocks(_, _, _, _, _, _)
RECURSIVE BlocksAround(_, _, _, _, _, _, _)
BlocksAround(a, b, alo, ahi, blo, bhi, m) ==
  IF m[3] = 0 THEN {}
  ELSE {m} \cup MatchingBlocks(a, b, alo, m[1] - 1, blo, m[2] - 1)
           \cup MatchingBlocks(a, b, m[1] + m[3], ahi, m[2] + m[3], bhi)

MatchingBlocks(a, b, alo, ahi, blo, bhi) ==
  IF alo > ahi \/ blo > bhi THEN {}
  ELSE BlocksAround(a, b, alo, ahi, blo, bhi, FindLongestMatch(a, b, alo, ahi, blo, bhi))

RECURSIVE SumSizes(_)
SumSizes(blocks) ==
  IF blocks = {} THEN 0
  ELSE LET m == CHOOSE x \in blocks : TRUE
       IN m[3] + SumSizes(blocks \ {m})

\* number of matched characters, the M of SequenceMatcher.ratio() = 2.0*M/T
Matches(a, b) == SumSizes(MatchingBlocks(a, b, 1, Len(a), 1, Len(b)))

\* fuzz.ratio
FuzzRatio(s1, s2) ==
  IF s1 = s2 THEN 100
  ELSE IF Len(s1) = 0 \/ Len(s2) = 0 THEN 0
  ELSE RoundHalfEven(200 * Matches(s1, s2), Len(s1) + Len(s2))

\* 0-based long_start of every matching block, the closing dummy block included
LongStarts(shorter, longer) ==
  {Max(0, (m[2] - 1) - (m[1] - 1)) :
     m \in MatchingBlocks(shorter, longer, 1, Len(shorter), 1, Len(longer))}
    \cup {Max(0, Len(longer) - Len(shorter))}

\* longer[long_start : long_start + n]
Window(longer, long_start, n) ==
  Slice(longer, long_start + 1, Min(Len(longer), long_start + n))

\* the ratio 2.0*M/T of one window: 100 above 0.995, else the percentage
WindowScore(matches, total) ==
  IF 2000 * matches > 995 * total THEN 100 ELSE RoundHalfEven(200 * matches, total)

WindowRatio(shorter, window) ==
  WindowScore(Matches(shorter, window), Len(shorter) + Len(window))

\* fuzz.partial_ratio: the best ratio of the shorter string against the
\* windows of the longer one that the matching blocks point at
PartialRatioOf(shorter, longer) ==
  SetMax({WindowRatio(shorter, Window(longer, long_start, Len(shorter))) :
            long_start \in LongStarts(shorter, longer)})

FuzzPartialRatio(s1, s2) ==
  IF s1 = s2 THEN 100
  ELSE IF Len(s1) = 0 \/ Len(s2) = 0 THEN 0
  ELSE PartialRatioOf(IF Len(s1) <= Len(s2) THEN s1 ELSE s2,
                      IF Len(s1) <= Len(s2) THEN s2 ELSE s1)

\* utils.full_process: every character that is not a letter or a digit
\* becomes a space, then lower() and strip()
FullProcess(s) ==
  Strip(Lower(Tuple([i \in 1..Len(s) |->
                       IF IsAlpha(s[i]) \/ IsDigit(s[i]) THEN s[i] ELSE " "], Len(s))))

\* fuzz._process_and_sort
ProcessAndSort(s) == Strip(JoinSpace(Sorted(Split(FullProcess(s)))))

\* fuzz.token_sort_ratio
FuzzTokenSortRatio(s1, s2) == FuzzRatio(ProcessAndSort(s1), ProcessAndSort(s2))

(***************************************************************************)
(* Python float (IEEE-754 binary64, round to nearest even) for the values  *)
(* the matcher computes, all in [0, 2).  A float is the natural number     *)
(* value * 2^75, written in base 2^15 with the least significant limb      *)
(* first and no leading zero limb (0.0 is <<>>); every double the matcher  *)
(* can produce is such a multiple.                                         *)
(***************************************************************************)
LimbBase == 32768
LimbBits == 15
ScaleLimbs == 5
Mantissa == 53

RECURSIVE Pow2(_)
Pow2(n) == IF n = 0 THEN 1 ELSE 2 * Pow2(n - 1)

RECURSIVE BNorm(_)
BNorm(x) == IF x # <<>> /\ x[Len(x)] = 0 THEN BNorm(Slice(x, 1, Len(x) - 1)) ELSE x

Zeros(n) == Tuple([i \in 1..n |-> 0], n)
Limb(x, i) == IF i <= Len(x) THEN x[i] ELSE 0

RECURSIVE BAddFrom(_, _, _, _)
BAddFrom(x, y, i, carry) ==
  IF i > Len(x) /\ i > Len(y)
  THEN (IF carry = 0 THEN <<>> ELSE <<carry>>)
  ELSE LET t == Limb(x, i) + Limb(y, i) + carry
       IN <<t % LimbBase>> \o BAddFrom(x, y, i + 1, t \div LimbBase)

BAdd(x, y) == BNorm(BAddFrom(x, y, 1, 0))

RECURSIVE BMulSmallFrom(_, _, _, _)
BMulSmallFrom(x, k, i, carry) ==
  IF i > Len(x) THEN (IF carry = 0 THEN <<>> ELSE <<carry>>)
  ELSE LET t == x[i] * k + carry
       IN <<t % LimbBase>> \o BMulSmallFrom(x, k, i + 1, t \div LimbBase)

BMulSmall(x, k) == BNorm(BMulSmallFrom(x, k, 1, 0))

RECURSIVE BMulFrom(_, _, _)
BMulFrom(x, y, i) ==
  IF i > Len(y) THEN <<>>
  ELSE BAdd(BNorm(Zeros(i - 1) \o BMulSmall(x, y[i])), BMulFrom(x, y, i + 1))

BMul(x, y) == BMulFrom(x, y, 1)

\* <<quotient limbs (most significant first), remainder>> of x by a small d
RECURSIVE BDivSmallFrom(_, _, _, _)
BDivSmallFrom(x, d, i, rem) ==
  IF i = 0 THEN <<<<>>, rem>>
  ELSE LET t == rem * LimbBase + x[i]
           rest == BDivSmallFrom(x, d, i - 1, t % d)
       IN <<(<<t \div d>>) \o rest[1], rest[2]>>

Reverse(x) == Tuple([i \in 1..Len(x) |-> x[Len(x) + 1 - i]], Len(x))

NormQuot(qr) == <<BNorm(Reverse(qr[1])), qr[2]>>

BDivSmall(x, d) == NormQuot(BDivSmallFrom(x, d, Len(x), 0))

RECURSIVE BitLenSmall(_)
BitLenSmall(n) == IF n = 0 THEN 0 ELSE 1 + BitLenSmall(n \div 2)

BitLen(x) == IF x = <<>> THEN 0 ELSE LimbBits * (Len(x) - 1) + BitLenSmall(x[Len(x)])

\* -1, 0, 1 as x is below, equal to, above y
RECURSIVE BCmpFrom(_, _, _)
BCmpFrom(x, y, i) ==
  IF i = 0 THEN 0
  ELSE IF Limb(x, i) < Limb(y, i) THEN -1
  ELSE IF Limb(x, i) > Limb(y, i) THEN 1
  ELSE BCmpFrom(x, y, i - 1)

BCmp(x, y) == BCmpFrom(x, y, Max(Len(x), Len(y)))

BShiftLeft(x, s) ==
  BNorm(Zeros(s \div LimbBits) \o BMulSmall(x, Pow2(s % LimbBits)))

\* q moved back s bits up, after one more unit in the last place if the
\* dropped part is above the half (c = 1), or is the half (c = 0) and the
\* exact value lies above it (sticky) or q is odd
RoundUp(q, c, sticky, s) ==
  BShiftLeft(IF c = 1 \/ (c = 0 /\ (sticky \/ (q # <<>> /\ q[1] % 2 = 1)))
             THEN BAdd(q, <<1>>) ELSE q, s)

\* qr: the bits of x above the lowest limbs, divided by 2^(s mod 15); low: the
\* lowest limbs of x.  The dropped part is compared with the half 2^(s-1).
RoundSplit(qr, low, sticky, s) ==
  RoundUp(qr[1],
          BCmp(BAdd(BShiftLeft(<<qr[2]>>, (s \div LimbBits) * LimbBits), low),
               BShiftLeft(<<1>>, s - 1)),
          sticky, s)

\* x with its s lowest bits rounded away
RoundAt(x, sticky, s) ==
  RoundSplit(BDivSmall(Slice(x, s \div LimbBits + 1, Len(x)), Pow2(s % LimbBits)),
             BNorm(Slice(x, 1, s \div LimbBits)), sticky, s)

\* x rounded to 53 significant bits, halves to the even neighbour; sticky says
\* that the exact value lies strictly above x
Round53(x, sticky) ==
  IF BitLen(x) <= Mantissa THEN x ELSE RoundAt(x, sticky, BitLen(x) - Mantissa)

\* r without its k lowest limbs
DropLimbs(r, k) == BNorm(Slice(r, k + 1, Len(r)))

\* the quotient rounded; a remainder makes the exact value larger
RoundQuot(qr) == Round53(qr[1], qr[2] # 0)

\* the double nearest to n/d for small naturals n and d (a literal such as
\* 0.75, or an int divided by 100.0)
FDiv(n, d) ==
  IF n = 0 THEN <<>>
  ELSE DropLimbs(RoundQuot(BDivSmall(Zeros(ScaleLimbs + 1) \o <<n>>, d)), 1)

FAdd(x, y) == Round53(BAdd(x, y), FALSE)

FMul(x, y) == DropLimbs(Round53(BMul(x, y), FALSE), ScaleLimbs)

FLt(x, y) == BCmp(x, y) = -1
FLe(x, y) == BCmp(x, y) <= 0
FGt(x, y) == BCmp(x, y) = 1
FGe(x, y) == BCmp(x, y) >= 0
FMin(x, y) == IF FLt(y, x) THEN y ELSE x

(***************************************************************************)
(* CustomerFuzzySearch: name normalisation and consensus scoring           *)
(***************************************************************************)
F_0 == <<>>
F_1 == FDiv(1, 1)
F_0_4 == FDiv(4, 10)
F_0_3 == FDiv(3, 10)
F_0_5 == FDiv(5, 10)
F_0_6 == FDiv(6, 10)
F_0_7 == FDiv(7, 10)
F_0_75 == FDiv(75, 100)
F_0_85 == FDiv(85, 100)
F_0_9 == FDiv(9, 10)

legal_forms == <<
  <<"g","m","b","h">>,
  <<"a","g">>,
  <<"k","g">>,
  <<"o","h","g">>,
  <<"g","b","r">>,
  <<"u","g">>,
  <<"e","g">>,
  <<"e","v">>,
  <<"g","m","b","h"," ","&"," ","c","o","."," ","k","g">>,
  <<"g","m","b","h"," ","&"," ","c","o"," ","k","g">>,
  <<"s","e">>,
  <<"k","g","a","a">> >>

suffixes == <<
  <<"g","e","s","e","l","l","s","c","h","a","f","t">>,
  <<"u","n","t","e","r","n","e","h","m","e","n">>,
  <<"b","e","t","r","i","e","b">>,
  <<"f","i","r","m","a">> >>

business_words == {
  <<"g","m","b","h">>,
  <<"a","g">>,
  <<"k","g">>,
  <<"m","a","s","c","h","i","n","e","n","b","a","u">>,
  <<"l","a","b","o","r","a","t","o","r","i","e","n">>,
  <<"l","a","b","s">>,
  <<"i","n","d","u","s","t","r","i","e","s">> }

\* the loop over legal_forms: the first form, in list order, that the name
\* ends with is cut off (with the space before it, if there is one), and the
\* loop stops
RECURSIVE StripLegalForm(_, _)
StripLegalForm(name_lower, i) ==
  IF i > Len(legal_forms) THEN name_lower
  ELSE LET form == legal_forms[i]
       IN IF EndsWith(name_lower, <<" ">> \o form)
          THEN Strip(Slice(name_lower, 1, Len(name_lower) - Len(form) - 1))
          ELSE IF EndsWith(name_lower, form)
          THEN Strip(Slice(name_lower, 1, Len(name_lower) - Len(form)))
          ELSE StripLegalForm(name_lower, i + 1)

\* the loop over suffixes: only a suffix after a space is cut off
RECURSIVE StripSuffix(_, _)
StripSuffix(name_lower, i) ==
  IF i > Len(suffixes) THEN name_lower
  ELSE LET suffix == suffixes[i]
       IN IF EndsWith(name_lower, <<" ">> \o suffix)
          THEN Strip(Slice(name_lower, 1, Len(name_lower) - Len(suffix) - 1))
          ELSE StripSuffix(name_lower, i + 1)

\* variant: the legal form is left on the name
_extract_core_company_name_with_form(company_name) ==
  Title(StripSuffix(Strip(Lower(company_name)), 1))

_extract_core_company_name(company_name) ==
  Title(StripSuffix(StripLegalForm(Strip(Lower(company_name)), 1), 1))

\* variant: the tier boundaries 0.7 and 0.5 taken exclusive
_calculate_length_penalty_exclusive(name1, name2) ==
  LET len1 == Len(name1)
      len2 == Len(name2)
      length_ratio == FDiv(Min(len1, len2), Max(len1, len2))
  IN IF len1 = 0 \/ len2 = 0 THEN F_0_5
     ELSE IF FGt(length_ratio, F_0_7) THEN F_1
     ELSE IF FGt(length_ratio, F_0_5) THEN F_0_85
     ELSE F_0_6

\* variant: a length ratio below 0.5 is penalised like one below 0.7
_calculate_length_penalty_two_tiers(name1, name2) ==
  LET len1 == Len(name1)
      len2 == Len(name2)
      length_ratio == FDiv(Min(len1, len2), Max(len1, len2))
  IN IF len1 = 0 \/ len2 = 0 THEN F_0_5
     ELSE IF FGe(length_ratio, F_0_7) THEN F_1
     ELSE F_0_85

\* length penalty in the four tiers; min/max is len ratio, compared as a float
_calculate_length_penalty(name1, name2) ==
  LET len1 == Len(name1)
      len2 == Len(name2)
      length_ratio == FDiv(Min(len1, len2), Max(len1, len2))
  IN IF len1 = 0 \/ len2 = 0 THEN F_0_5
     ELSE IF FGe(length_ratio, F_0_7) THEN F_1
     ELSE IF FGe(length_ratio, F_0_5) THEN F_0_85
     ELSE F_0_6

\* variant: the business words are left in the word sets
_is_likely_partial_match_unfiltered(name1, name2, partial_score) ==
  IF FGe(partial_score, F_0_7)
  THEN LET words1 == WordSet(Lower(name1))
           words2 == WordSet(Lower(name2))
       IN \/ words1 = {} \/ words2 = {}
          \/ words1 \cap words2 = {}
  ELSE FALSE

\* partial_score is the float scores[1] of the caller
_is_likely_partial_match(name1, name2, partial_score) ==
  IF FGe(partial_score, F_0_7)
  THEN LET words1_filtered == WordSet(Lower(name1)) \ business_words
           words2_filtered == WordSet(Lower(name2)) \ business_words
       IN \/ words1_filtered = {} \/ words2_filtered = {}
          \/ words1_filtered \cap words2_filtered = {}
  ELSE FALSE

\* variant: one metric at 0.6 or above is enough to pass the gate
ConsensusOfScores_one_high(core_name1, core_name2, scores) ==
  IF Cardinality({i \in 1..3 : FGe(scores[i], F_0_6)}) < 1 THEN F_0
  ELSE IF _is_likely_partial_match(core_name1, core_name2, scores[2]) THEN F_0
  ELSE FMul(FAdd(FAdd(FMul(scores[1], F_0_4), FMul(scores[2], F_0_3)),
                 FMul(scores[3], F_0_3)),
            _calculate_length_penalty(core_name1, core_name2))

\* lines 124-143 of _calculate_consensus_score: the gate on high_scores, the
\* partial-match heuristic, then weighted_score * length_penalty; scores is
\* the list of line 122 (Python indexes it from 0)
ConsensusOfScores(core_name1, core_name2, scores) ==
  IF Cardinality({i \in 1..3 : FGe(scores[i], F_0_6)}) < 2 THEN F_0
  ELSE IF _is_likely_partial_match(core_name1, core_name2, scores[2]) THEN F_0
  ELSE FMul(FAdd(FAdd(FMul(scores[1], F_0_4), FMul(scores[2], F_0_3)),
                 FMul(scores[3], F_0_3)),
            _calculate_length_penalty(core_name1, core_name2))

\* lines 117-122: ratio_score, partial_score and token_score of the lower-cased
\* core names, each divided by 100.0
ConsensusOfCores(core_name1, core_name2) ==
  ConsensusOfScores(core_name1, core_name2,
    <<FDiv(FuzzRatio(Lower(core_name1), Lower(core_name2)), 100),
      FDiv(FuzzPartialRatio(Lower(core_name1), Lower(core_name2)), 100),
      FDiv(FuzzTokenSortRatio(Lower(core_name1), Lower(core_name2)), 100)>>)

_calculate_consensus_score(name1, name2) ==
  ConsensusOfCores(_extract_core_company_name(name1), _extract_core_company_name(name2))

(***************************************************************************)
(* CustomerMatchResult and the three tiers                                 *)
(***************************************************************************)
None == [tag |-> "None"]
Some(v) == [tag |-> "Some", val |-> v]
Raise(e) == [tag |-> "Raise", exc |-> e]

REASON_NO_NAME == "Kein Firmenname angegeben"
REASON_NO_MATCH == "Keine passende Kundenzuordnung gefunden"
REASON_EXACT == "Exakte Firmenname-Uebereinstimmung"
REASON_FUZZY == "Ungefaehre Firmenname-Uebereinstimmung"
REASON_EMAIL == "E-Mail-Domain-Uebereinstimmung mit Firmenname-Aehnlichkeit"

\* CustomerMatchResult(...): customer_id, customer_name and relevant_data
\* default to None; pydantic rejects a confidence_score outside [0.0, 1.0]
CustomerMatchResult(customer_id, customer_name, confidence_score, match_reason, relevant_data) ==
  IF FGe(confidence_score, F_0) /\ FLe(confidence_score, F_1)
  THEN Some([customer_id |-> customer_id, customer_name |-> customer_name,
             confidence_score |-> confidence_score, match_reason |-> match_reason,
             relevant_data |-> relevant_data])
  ELSE Raise("ValidationError")

NoMatchResult(match_reason) == CustomerMatchResult(None, None, F_0, match_reason, None)

\* the fields of the customer that _extract_customer_data copies
_extract_customer_data(customer) ==
  [customer_id |-> customer.id, name |-> customer.name, email |-> customer.email]

\* variant: the result is built without the customer's name
MatchOf_unnamed(customer, confidence_score, match_reason) ==
  CustomerMatchResult(Some(customer.id), None, confidence_score,
                      match_reason, Some(_extract_customer_data(customer)))

MatchOf(customer, confidence_score, match_reason) ==
  CustomerMatchResult(Some(customer.id), Some(customer.name), confidence_score,
                      match_reason, Some(_extract_customer_data(customer)))

RECURSIVE ExactScan(_, _, _)
ExactScan(customers, company_name_clean, i) ==
  IF i > Len(customers) THEN None
  ELSE IF Lower(Strip(customers[i].name)) = company_name_clean
       THEN MatchOf(customers[i], F_1, REASON_EXACT)
       ELSE ExactScan(customers, company_name_clean, i + 1)

\* variant: the last roster entry with the name is returned, not the first
_find_exact_match_last(customers, company_name) ==
  LET hits == {i \in 1..Len(customers) :
                 Lower(Strip(customers[i].name)) = Lower(Strip(company_name))}
  IN IF hits = {} THEN None
     ELSE MatchOf(customers[CHOOSE i \in hits : \A j \in hits : j <= i], F_1, REASON_EXACT)

_find_exact_match(customers, company_name) ==
  ExactScan(customers, Lower(Strip(company_name)), 1)

\* lines 84-88: a strictly higher score replaces <<best_score, best_customer>>
Better(score, i, best) == IF FGt(score, best[1]) THEN <<score, i>> ELSE best

\* the loop of _find_fuzzy_company_match: <<best_score, index of best_customer>>
RECURSIVE BestScan(_, _, _, _)
BestScan(customers, company_name, i, best) ==
  IF i > Len(customers) THEN best
  ELSE BestScan(customers, company_name, i + 1,
                Better(_calculate_consensus_score(company_name, customers[i].name), i, best))

\* variant: a best score of 0.5 is enough for a candidate
FuzzyCandidate_lenient(customers, best) ==
  IF FGe(best[1], F_0_5)
  THEN MatchOf(customers[best[2]], best[1], REASON_FUZZY)
  ELSE None

\* variant: a best score of exactly 0.75 is not accepted
FuzzyCandidate_strict(customers, best) ==
  IF FGt(best[1], F_0_75)
  THEN MatchOf(customers[best[2]], best[1], REASON_FUZZY)
  ELSE None

\* lines 90-99: the best entry is the candidate if best_score >= 0.75
FuzzyCandidate(customers, best) ==
  IF FGe(best[1], F_0_75)
  THEN MatchOf(customers[best[2]], best[1], REASON_FUZZY)
  ELSE None

_find_fuzzy_company_match(customers, company_name) ==
  FuzzyCandidate(customers, BestScan(customers, company_name, 1, <<F_0, 0>>))

\* email.split('@')[1].lower(): the field after the first '@'
EmailDomain(email) == Lower(SplitOn(email, "@")[2])

\* the loop of _find_email_match; a non-empty roster email without '@' has no
\* field [1] after the split
RECURSIVE EmailScan(_, _, _, _)

RECURSIVE SameDomainEntry(_, _, _, _, _)

\* variant: the confidence is (similarity + 20) / 100 under the cap
SameDomainEntry_graded(customers, email_domain, company_name, i, name_similarity) ==
  IF name_similarity >= 50
  THEN MatchOf(customers[i], FMin(F_0_9, FDiv(name_similarity + 20, 100)), REASON_EMAIL)
  ELSE EmailScan(customers, email_domain, company_name, i + 1)

\* lines 257-265, for an entry of the same domain
SameDomainEntry(customers, email_domain, company_name, i, name_similarity) ==
  IF name_similarity >= 50
  THEN MatchOf(customers[i], FMin(F_0_9, FDiv(name_similarity + 70, 100)), REASON_EMAIL)
  ELSE EmailScan(customers, email_domain, company_name, i + 1)

EmailScan(customers, email_domain, company_name, i) ==
  IF i > Len(customers) THEN None
  ELSE IF customers[i].email = <<>>
  THEN EmailScan(customers, email_domain, company_name, i + 1)
  ELSE IF ~Contains(customers[i].email, "@") THEN Raise("IndexError")
  ELSE IF EmailDomain(customers[i].email) # email_domain
  THEN EmailScan(customers, email_domain, company_name, i + 1)
  ELSE SameDomainEntry(customers, email_domain, company_name, i,
                       FuzzPartialRatio(Lower(company_name), Lower(customers[i].name)))

\* variant: line 246 tests only that a contact e-mail is given
_find_email_match_unguarded(customers, contact_email, company_name) ==
  IF contact_email = <<>> THEN None
  ELSE IF ~Contains(contact_email, "@") THEN Raise("IndexError")
  ELSE EmailScan(customers, EmailDomain(contact_email), company_name, 1)

_find_email_match(customers, contact_email, company_name) ==
  IF contact_email = <<>> \/ ~Contains(contact_email, "@") THEN None
  ELSE EmailScan(customers, EmailDomain(contact_email), company_name, 1)

\* a result object that is returned
Return(m) == IF m.tag = "Raise" THEN m ELSE [tag |-> "Return", val |-> m.val]

\* variant: only the empty string counts as blank
IsBlankName_no_strip(company_name) == company_name = <<>>

\* line 31: not company_name or not company_name.strip()
IsBlankName(company_name) == company_name = <<>> \/ Strip(company_name) = <<>>

\* variant: the fuzzy candidate is returned at once only above 0.9
FuzzyIsReturned_above_email_cap(fuzzy_match) ==
  fuzzy_match.tag = "Some" /\ FGt(fuzzy_match.val.confidence_score, F_0_9)

\* line 44: fuzzy_match and fuzzy_match.confidence_score > 0.7
FuzzyIsReturned(fuzzy_match) ==
  fuzzy_match.tag = "Some" /\ FGt(fuzzy_match.val.confidence_score, F_0_7)

\* lines 54-57: the fuzzy match if there is one, else the no-match result
FuzzyOrNoMatch(fuzzy_match) ==
  IF fuzzy_match.tag = "Some" THEN Return(fuzzy_match)
  ELSE Return(NoMatchResult(REASON_NO_MATCH))

\* lines 50-51; line 50 reads fuzzy_match.confidence_score, also of a
\* fuzzy_match that is None
AfterEmailMatch(fuzzy_match, email_match) ==
  IF email_match.tag = "Raise" THEN email_match
  ELSE IF email_match.tag = "None" THEN FuzzyOrNoMatch(fuzzy_match)
  ELSE IF fuzzy_match.tag = "None" THEN Raise("AttributeError")
  ELSE IF FGt(email_match.val.confidence_score, fuzzy_match.val.confidence_score)
  THEN Return(email_match)
  ELSE FuzzyOrNoMatch(fuzzy_match)

\* lines 44-49
AfterFuzzyMatch(customers, company_name, contact_email, fuzzy_match) ==
  IF fuzzy_match.tag = "Raise" THEN fuzzy_match
  ELSE IF FuzzyIsReturned(fuzzy_match) THEN Return(fuzzy_match)
  ELSE IF contact_email # <<>>
  THEN AfterEmailMatch(fuzzy_match,
                       _find_email_match(customers, contact_email, company_name))
  ELSE FuzzyOrNoMatch(fuzzy_match)

\* lines 39-43
AfterExactMatch(customers, company_name, contact_email, exact_match) ==
  IF exact_match.tag # "None" THEN Return(exact_match)
  ELSE AfterFuzzyMatch(customers, company_name, contact_email,
                       _find_fuzzy_company_match(customers, company_name))

\* find_customer_match: Return(result), or Raise(exception) where a step raises
find_customer_match(customers, company_name, contact_email) ==
  IF IsBlankName(company_name)
  THEN Return(NoMatchResult(REASON_NO_NAME))
  ELSE AfterExactMatch(customers, company_name, contact_email,
                       _find_exact_match(customers, company_name))

(***************************************************************************)
(* ResearchOrchestrator (core/research_agents.py) with the result models   *)
(* of core/research_models.py                                              *)
(***************************************************************************)
\* str(e) of the exceptions of the matcher
StrOfException(e) ==
  CASE e = "AttributeError" -> "'NoneType' object has no attribute 'confidence_score'"
    [] e = "IndexError" -> "list index out of range"
    [] OTHER -> e

\* line 105: created_by is the contact e-mail only when it holds an '@'
ContactEmailOf(ticket) ==
  IF Contains(ticket.created_by, "@") THEN ticket.created_by ELSE <<>>

\* variant: lines 102-111 without the except clause of lines 113-117
IdentifiedOrError_unguarded(match) == match

\* lines 113-117: an exception of the matcher becomes a result without a
\* customer, with confidence 0.0 and the text of the exception in the reason
IdentifiedOrError(match) ==
  IF match.tag = "Raise"
  THEN Return(NoMatchResult("Error during customer identification: "
                            \o StrOfException(match.exc)))
  ELSE match

_identify_customer(customers, ticket) ==
  IdentifiedOrError(
    find_customer_match(customers, ticket.customer_id, ContactEmailOf(ticket)))

\* research_models.py lines 53-62: the fields of ResearchSummary; all but
\* probable_root_cause are declared with Field(...) and so are required
ResearchSummaryRequired ==
  {"customer_status", "technical_findings", "historical_context",
   "confidence_assessment", "recommended_next_steps", "open_questions",
   "urgency_level"}

ResearchSummaryFields == ResearchSummaryRequired \cup {"probable_root_cause"}

\* ResearchSummary(**kwargs): a keyword that is no field is ignored, a
\* required field without a keyword raises pydantic's ValidationError
ResearchSummary(kwargs) ==
  IF ResearchSummaryRequired \subseteq DOMAIN kwargs
  THEN Some([f \in ResearchSummaryFields |->
               IF f \in DOMAIN kwargs THEN kwargs[f] ELSE None])
  ELSE Raise("ValidationError")

\* the keywords of every ResearchSummary(...) call of research_agents.py
\* (lines 85-95, 309-319, 500-510 and 515-525)
SummaryKeywords(customer_status, confidence_assessment, urgency_level) ==
  [customer_status |-> customer_status,
   technical_findings |-> "technical_findings",
   historical_context |-> "historical_context",
   initial_cause_assessment |-> None,
   confidence_assessment |-> confidence_assessment,
   confidence_explanation |-> "confidence_explanation",
   urgency_level |-> urgency_level,
   urgency_explanation |-> "urgency_explanation",
   relevant_manuals |-> <<>>]

\* try: body / except Exception: handler
TryExcept(body, handler) == IF body.tag = "Raise" THEN handler ELSE body

\* lines 439-525: the response of the LLM is a dict with a confidence and an
\* urgency, or it is no dict (ValueError, line 444); both ResearchSummary
\* calls pass the same keywords
_create_validated_research_summary(response) ==
  TryExcept(
    IF response.tag = "dict"
    THEN ResearchSummary(SummaryKeywords("customer_status",
                                         response.confidence_assessment,
                                         response.urgency_level))
    ELSE Raise("ValueError"),
    ResearchSummary(SummaryKeywords("Fehler bei der Zusammenfassungsgenerierung",
                                    "low", "medium")))

\* lines 260-319: structured_completion raises, or its response is validated
_generate_research_summary(response) ==
  TryExcept(
    IF response.tag = "raises"
    THEN Raise("LLMError")
    ELSE _create_validated_research_summary(response),
    ResearchSummary(SummaryKeywords("Error in research summary generation",
                                    "low", "medium")))

\* lines 119-175: one ManualSearchResult per SKU of the ticket; a failure of
\* the search for a SKU is caught and gives a result with manual_found False
_search_manuals(ticket, failing) ==
  Some([k \in 1..Len(ticket.related_skus) |->
          [product_sku |-> ticket.related_skus[k],
           manual_found |-> "manuals" \notin failing]])

\* lines 245-258: a failure of the similarity search is caught
_find_similar_tickets(ticket, failing) ==
  Some([similar_tickets_found |-> "similarity" \notin failing])

\* FullResearchResult(...): an argument that raises is raised before the call
FullResearchResult(customer_identification, manual_search, ticket_similarity, research_summary, errors_encountered) ==
  IF customer_identification.tag = "Raise" THEN customer_identification
  ELSE IF manual_search.tag = "Raise" THEN manual_search
  ELSE IF ticket_similarity.tag = "Raise" THEN ticket_similarity
  ELSE IF research_summary.tag = "Raise" THEN research_summary
  ELSE Return(Some([customer_identification |-> customer_identification.val,
                    manual_search |-> manual_search.val,
                    ticket_similarity |-> ticket_similarity.val,
                    research_summary |-> research_summary.val,
                    errors_encountered |-> errors_encountered]))

\* lines 69-98: the except clause of conduct_full_research
PartialResults(e) ==
  FullResearchResult(
    Return(NoMatchResult("Error during customer identification")),
    Some(<<>>),
    Some([similar_tickets_found |-> FALSE]),
    ResearchSummary(SummaryKeywords("Error in research process", "low", "medium")),
    <<"Research process error: " \o StrOfException(e)>>)

\* lines 39-67 followed by the except clause
FullResearchOr(result) ==
  IF result.tag = "Raise" THEN PartialResults(result.exc) ELSE result

\* conduct_full_research(ticket); response is what the LLM answers to the
\* summary prompt, failing the set of steps 2 and 3 whose collaborator raises
conduct_full_research(customers, ticket, response, failing) ==
  FullResearchOr(
    FullResearchResult(_identify_customer(customers, ticket),
                       _search_manuals(ticket, failing),
                       _find_similar_tickets(ticket, failing),
                       _generate_research_summary(response),
                       <<>>))

(***************************************************************************)
(* The Streamlit session: ui/utils/state.py and PlanningWorkflowState      *)
(***************************************************************************)
valid_stages == <<"context", "ticket_input", "research", "planning", "execution", "closing">>

\* valid_stages.index(stage)
StageIndex(stage) == CHOOSE i \in 1..Len(valid_stages) : valid_stages[i] = stage

\* the workflow_state dict of initialize_session_state and reset_workflow; the
\* keys research_results, plan, execution_results and summary are written
\* nowhere else and are left out
InitialWorkflowState ==
  [current_stage |-> "context", completed_stages |-> {}, selected_ticket |-> None,
   plan_approved |-> FALSE]

\* variant: the completed stages are replaced by the stage that is left
advance_to_stage_replacing(workflow_state, stage) ==
  [workflow_state EXCEPT !.current_stage = stage,
                         !.completed_stages = {workflow_state.current_stage}]

advance_to_stage(workflow_state, stage) ==
  [workflow_state EXCEPT !.current_stage = stage,
                         !.completed_stages = @ \cup {workflow_state.current_stage}]

\* the workflow state after navigate_to_stage(stage), unchanged where it
\* returns False
navigate_to_stage(workflow_state, stage) ==
  IF stage \in workflow_state.completed_stages \/ stage = workflow_state.current_stage
  THEN [workflow_state EXCEPT !.current_stage = stage]
  ELSE IF /\ workflow_state.current_stage \in workflow_state.completed_stages
          /\ StageIndex(stage) = StageIndex(workflow_state.current_stage) + 1
  THEN [workflow_state EXCEPT !.current_stage = stage]
  ELSE workflow_state

can_navigate_to_stage(workflow_state, stage) ==
  \/ stage \in workflow_state.completed_stages
  \/ stage = workflow_state.current_stage
  \/ /\ workflow_state.current_stage \in workflow_state.completed_stages
     /\ StageIndex(stage) = StageIndex(workflow_state.current_stage) + 1

get_stage_status(workflow_state, stage) ==
  IF stage \in workflow_state.completed_stages THEN "completed"
  ELSE IF stage = workflow_state.current_stage THEN "current"
  ELSE IF can_navigate_to_stage(workflow_state, stage) THEN "available"
  ELSE "locked"

\* PlanningWorkflowState()
PlanningWorkflowState ==
  [current_plan |-> None, revision_history |-> <<>>, plan_approved |-> FALSE]

\* variant: add_plan leaves plan_approved as it is
add_plan_keeps_approval(self, plan) ==
  [current_plan |-> Some(plan),
   revision_history |-> IF self.current_plan # None
                        THEN Append(self.revision_history, self.current_plan.val)
                        ELSE self.revision_history,
   plan_approved |-> self.plan_approved]

add_plan(self, plan) ==
  [current_plan |-> Some(plan),
   revision_history |-> IF self.current_plan # None
                        THEN Append(self.revision_history, self.current_plan.val)
                        ELSE self.revision_history,
   plan_approved |-> FALSE]

approve_current_plan(self) ==
  IF self.current_plan # None THEN [self EXCEPT !.plan_approved = TRUE] ELSE self

get_revision_count(self) == Len(self.revision_history)

\* a PlanningWorkflowState() as line 39 of planning.py constructs it, with the
\* calls of its methods so far
NewPlanning == [self |-> PlanningWorkflowState, calls |-> <<>>]

\* st.session_state of a new browser session; the keys research_results and
\* planning_workflow_state are absent (None)
NewSession ==
  [workflow_state |-> InitialWorkflowState, research_results |-> None,
   planning_workflow_state |-> None]

(***************************************************************************)
(* The matcher as a state machine: a roster snapshot, and one call at a    *)
(* time by the research workflow                                           *)
(***************************************************************************)
MaxRoster == 2

\* customer records of the CRM (id, name, contact_person.email)
CustomerPool == {
  [id |-> "C1", name |-> <<"A","b"," ","C","d","e","f","g"," ","A","G">>, email |-> <<"m","@","x","y">>],
  [id |-> "C2", name |-> <<"A","B"," ","C","D","E","F","G"," ","A","G"," ">>, email |-> <<"n","@","z","z">>],
  [id |-> "C3", name |-> <<"C","d","e","f","g"," ","A","b"," ","A","G">>, email |-> <<"k","@","X","Y">>],
  [id |-> "C4", name |-> <<"A","b"," ","C","d"," ","A","G">>, email |-> <<>>],
  [id |-> "C5", name |-> <<"A","b"," ","C","d","x","y","g"," ","A","G">>, email |-> <<"m","x","y">>] }

Rosters == UNION {[1..n -> CustomerPool] : n \in 0..MaxRoster}

\* company names and contact e-mails of tickets
CompanyNames == {
  <<>>,
  <<" ">>,
  <<"A","b"," ","C","d","e","f","g"," ","A","G">>,
  <<" ","a","b"," ","c","d","e","f","g"," ","a","g"," ">>,
  <<"A","b"," ","C","d","e","f","g">>,
  <<"A","b"," ","C","d","x","y","g">>,
  <<"A","b","b"," ","C","d","e","f","g">>,
  <<"A","b">>,
  <<"X","y">>,
  <<"A","G">>,
  <<"A","b"," ","C","x","y">>,
  <<"A","b"," ","C">>,
  <<"A","B"," ","C","D","E","F","G"," ","K","G">>,
  <<"A","b"," ","C","d","e","f","g"," ","G","m","b","H"," ","&"," ","C","o","."," ","K","G">> }

ContactEmails == {
  <<>>,
  <<"a","@","x","y">>,
  <<"b","@","Z","Z">>,
  <<"a","x","y">> }

\* names given to _calculate_consensus_score
ScoreNames == {
  <<>>,
  <<"A","G">>,
  <<"L","a","b","s"," ","A","G">>,
  <<"A","b"," ","L","a","b","s"," ","A","G">>,
  <<"A","b"," ","C","d","e","f","g"," ","A","G">>,
  <<"A","b"," ","C","d","e","f","g">>,
  <<"A","b"," ","C","d","x","y","g"," ","K","G">>,
  <<"A","b","b"," ","C","d","e","f","g">>,
  <<"C","d","e","f","g"," ","A","b"," ","A","G">>,
  <<"A","b">>,
  <<"X","y">>,
  <<"A","b"," ","C","d"," ","A","G">>,
  <<"A","b"," ","C","d","e","f">>,
  <<"A","b"," ","C","d","e","f","g","h","i">>,
  <<"A","b","c","d","e">>,
  <<"A","b","c","x","y">>,
  <<"Y"," ","X","a","c"," ","C">>,
  <<"Y"," ","X">>,
  <<"A","e","c","y","b"," ","X","a","d","d","d">>,
  <<"A","e","c","y","b"," ","X","d","y","d","x","e","d","d">>,
  <<"A","b"," ","G","m","b","H"," ","&"," ","C","o","."," ","K","G">>,
  <<"A","c","m","e"," ","L","a","b","s"," ","G","m","b","H">>,
  <<"A","c","m","e"," ","M","a","s","c","h","i","n","e","n","b","a","u"," ","G","m","b","H">>,
  <<"A","b"," ","C","d","a","g">>,
  <<"A","b"," ","A","G"," ","K","G">> }

VARIABLES customers, customer_names, customer_ids,
          pc, company_name, contact_email, outcome,
          name1, name2, consensus_score, email_match, threads,
          session_state, tickets_created, research, metric_scores, planning

vars == <<customers, customer_names, customer_ids,
          pc, company_name, contact_email, outcome,
          name1, name2, consensus_score, email_match, threads,
          session_state, tickets_created, research, metric_scores, planning>>

matcherVars == <<customers, customer_names, customer_ids,
                 pc, company_name, contact_email, outcome>>
scoreVars == <<name1, name2, consensus_score, metric_scores>>
\* what a call of find_customer_match does not touch
otherVars == <<scoreVars, email_match, threads, session_state, tickets_created, research,
               planning>>
\* what the Streamlit UI does not touch
coreVars == <<matcherVars, scoreVars, email_match, threads, research, planning>>

NoCall == [tag |-> "NoCall"]

\* lines 16-17: a dict comprehension keyed by a field of the customers; a
\* later customer replaces an earlier one with the same key
IndexBy(crm_data, field) ==
  [key \in {crm_data[i][field] : i \in 1..Len(crm_data)} |->
     crm_data[SetMax({i \in 1..Len(crm_data) : crm_data[i][field] = key})]]

\* the threads that call the matcher
Threads == {"t1", "t2"}

\* a thread that has not called yet
NoThreads ==
  [t \in Threads |-> [pc |-> "idle", company_name |-> <<>>, contact_email |-> <<>>,
                      fuzzy_match |-> None, outcome |-> NoCall]]

\* CustomerFuzzySearch(crm_data)
__init__(crm_data) ==
  /\ pc = "idle"
  /\ customers' = crm_data
  /\ customer_names' = IndexBy(crm_data, "name")
  /\ customer_ids' = IndexBy(crm_data, "id")
  /\ UNCHANGED <<pc, company_name, contact_email, outcome, otherVars>>

\* one call of find_customer_match, up to its return or its exception
FindCustomerMatch(name, email) ==
  /\ pc = "idle"
  /\ pc' = "called"
  /\ company_name' = name
  /\ contact_email' = email
  /\ outcome' = find_customer_match(customers, name, email)
  /\ UNCHANGED <<customers, customer_names, customer_ids, otherVars>>

\* the caller has taken the result
Done ==
  /\ pc = "called"
  /\ pc' = "idle"
  /\ company_name' = <<>>
  /\ contact_email' = <<>>
  /\ outcome' = NoCall
  /\ UNCHANGED <<customers, customer_names, customer_ids, otherVars>>

MatcherIdle ==
  /\ pc = "idle"
  /\ company_name = <<>>
  /\ contact_email = <<>>
  /\ outcome = NoCall

ScoreIdle ==
  /\ name1 = <<>>
  /\ name2 = <<>>
  /\ consensus_score = NoCall
  /\ metric_scores = <<>>

\* the matcher as __init__ leaves it for a roster
Constructed ==
  /\ customer_names = IndexBy(customers, "name")
  /\ customer_ids = IndexBy(customers, "id")

Init ==
  /\ customers \in Rosters
  /\ Constructed
  /\ MatcherIdle
  /\ ScoreIdle
  /\ email_match = NoCall
  /\ threads = NoThreads
  /\ session_state = NewSession
  /\ tickets_created = 0
  /\ research = NoCall
  /\ planning = NewPlanning

Next ==
  \/ \E crm_data \in Rosters : __init__(crm_data)
  \/ \E name \in CompanyNames, email \in ContactEmails : FindCustomerMatch(name, email)
  \/ Done

Spec == Init /\ [][Next]_vars

(***************************************************************************)
(* _calculate_consensus_score on its own: one call for a pair of names     *)
(***************************************************************************)
CalculateConsensusScore ==
  /\ consensus_score = NoCall
  /\ consensus_score' = [tag |-> "Return", val |-> _calculate_consensus_score(name1, name2)]
  /\ UNCHANGED <<matcherVars, name1, name2, metric_scores, email_match, threads,
                 session_state, tickets_created, research, planning>>

InitScore ==
  /\ customers = <<>>
  /\ Constructed
  /\ MatcherIdle
  /\ name1 \in ScoreNames
  /\ name2 \in ScoreNames
  /\ consensus_score = NoCall
  /\ metric_scores = <<>>
  /\ email_match = NoCall
  /\ threads = NoThreads
  /\ session_state = NewSession
  /\ tickets_created = 0
  /\ research = NoCall
  /\ planning = NewPlanning

NextScore == CalculateConsensusScore

SpecScore == InitScore /\ [][NextScore]_vars

(***************************************************************************)
(* Lines 124-143 of _calculate_consensus_score for any three metric        *)
(* values: the core names and the three scores of lines 117-119 are given  *)
(***************************************************************************)
\* core names, as _extract_core_company_name leaves them
CoreNames == {
  <<>>,
  <<"A","b">>,
  <<"A","b"," ","C">>,
  <<"A","b"," ","C","d">>,
  <<"A","b"," ","C","d","e","f">>,
  <<"A","b"," ","C","d","e","f","g","h">>,
  <<"A","b"," ","C","d","e","f","g","h","i">> }

\* ratio_score, partial_score and token_score are integers from 0 to 100
MetricValues == {0, 59, 60, 70, 88, 89, 100}

\* line 122: the scores on the 0-1 scale
ScoresOf(metric) == <<FDiv(metric[1], 100), FDiv(metric[2], 100), FDiv(metric[3], 100)>>

ConsensusFromScores ==
  /\ consensus_score = NoCall
  /\ consensus_score' = [tag |-> "Return", val |-> ConsensusOfScores(name1, name2, ScoresOf(metric_scores))]
  /\ UNCHANGED <<matcherVars, name1, name2, metric_scores, email_match, threads,
                 session_state, tickets_created, research, planning>>

InitMetrics ==
  /\ customers = <<>>
  /\ Constructed
  /\ MatcherIdle
  /\ name1 \in CoreNames
  /\ name2 \in CoreNames
  /\ metric_scores \in MetricValues \X MetricValues \X MetricValues
  /\ consensus_score = NoCall
  /\ email_match = NoCall
  /\ threads = NoThreads
  /\ session_state = NewSession
  /\ tickets_created = 0
  /\ research = NoCall
  /\ planning = NewPlanning

NextMetrics == ConsensusFromScores

SpecMetrics == InitMetrics /\ [][NextMetrics]_vars

(***************************************************************************)
(* _find_email_match on its own: one call for a roster, a contact e-mail   *)
(* and a company name                                                      *)
(***************************************************************************)
FindEmailMatch ==
  /\ email_match = NoCall
  /\ email_match' = _find_email_match(customers, contact_email, company_name)
  /\ UNCHANGED <<matcherVars, scoreVars, threads, session_state, tickets_created, research, planning>>

InitEmail ==
  /\ customers \in Rosters
  /\ Constructed
  /\ pc = "email"
  /\ company_name \in CompanyNames
  /\ contact_email \in ContactEmails
  /\ outcome = NoCall
  /\ ScoreIdle
  /\ email_match = NoCall
  /\ threads = NoThreads
  /\ session_state = NewSession
  /\ tickets_created = 0
  /\ research = NoCall
  /\ planning = NewPlanning

NextEmail == FindEmailMatch

SpecEmail == InitEmail /\ [][NextEmail]_vars

(***************************************************************************)
(* Concurrent calls of find_customer_match against one constructed         *)
(* matcher: each thread runs the tiers one after the other, and every tier *)
(* reads self.customers when it runs                                       *)
(***************************************************************************)
\* the rosters the shared matcher is constructed with
SharedRosters ==
  {r \in Rosters : Len(r) = 2 /\ r[1].id \in {"C1", "C5"} /\ r[2].id \in {"C1", "C4"}}

\* the (company_name, contact_email) arguments of the threads' calls
CallArgs ==
  {<<>>, <<"A","b"," ","C","d","e","f","g"," ","A","G">>,
   <<"A","b"," ","C","d","e","f","g">>, <<"A","b">>, <<"A","b"," ","C">>}
  \X {<<>>, <<"a","@","x","y">>}

\* variant: a call moves the roster entries around
SelfAfterCall_reordered(roster, by_name, by_id) ==
  [customers |-> Reverse(roster), customer_names |-> by_name, customer_ids |-> by_id]

\* lines 19-57 and the tier methods assign no attribute of self and call no
\* mutating method on the roster or the two dicts
SelfAfterCall(roster, by_name, by_id) ==
  [customers |-> roster, customer_names |-> by_name, customer_ids |-> by_id]

\* the matcher after a step of a call
StepLeavesSelf ==
  /\ customers' = SelfAfterCall(customers, customer_names, customer_ids).customers
  /\ customer_names' = SelfAfterCall(customers, customer_names, customer_ids).customer_names
  /\ customer_ids' = SelfAfterCall(customers, customer_names, customer_ids).customer_ids
  /\ UNCHANGED <<pc, company_name, contact_email, outcome, scoreVars, email_match,
                 session_state, tickets_created, research, planning>>

\* lines 19-36: a thread enters find_customer_match; a blank company name
\* returns at once
Call(t, name, email) ==
  /\ threads[t].pc \in {"idle", "returned"}
  /\ threads' = [threads EXCEPT ![t] =
       IF IsBlankName(name)
       THEN [pc |-> "returned", company_name |-> name, contact_email |-> email,
             fuzzy_match |-> None, outcome |-> Return(NoMatchResult(REASON_NO_NAME))]
       ELSE [pc |-> "exact", company_name |-> name, contact_email |-> email,
             fuzzy_match |-> None, outcome |-> NoCall]]
  /\ StepLeavesSelf

\* lines 38-40
ExactStep(t) ==
  /\ threads[t].pc = "exact"
  /\ LET exact_match == _find_exact_match(customers, threads[t].company_name)
     IN threads' = [threads EXCEPT ![t] =
          IF exact_match.tag # "None"
          THEN [@ EXCEPT !.pc = "returned", !.outcome = Return(exact_match)]
          ELSE [@ EXCEPT !.pc = "fuzzy"]]
  /\ StepLeavesSelf

\* line 43
FuzzyStep(t) ==
  /\ threads[t].pc = "fuzzy"
  /\ threads' = [threads EXCEPT ![t] =
       [@ EXCEPT !.pc = "line44",
                 !.fuzzy_match = _find_fuzzy_company_match(customers, threads[t].company_name)]]
  /\ StepLeavesSelf

\* lines 44-48 and, without a contact e-mail, lines 54-57
Line44(t) ==
  /\ threads[t].pc = "line44"
  /\ threads' = [threads EXCEPT ![t] =
       IF ~FuzzyIsReturned(threads[t].fuzzy_match) /\ threads[t].contact_email # <<>>
       THEN [@ EXCEPT !.pc = "email"]
       ELSE [@ EXCEPT !.pc = "returned",
                      !.outcome = AfterFuzzyMatch(customers, threads[t].company_name, <<>>,
                                                  threads[t].fuzzy_match)]]
  /\ StepLeavesSelf

\* lines 49-57
EmailStep(t) ==
  /\ threads[t].pc = "email"
  /\ threads' = [threads EXCEPT ![t] =
       [@ EXCEPT !.pc = "returned",
                 !.outcome = AfterEmailMatch(threads[t].fuzzy_match,
                               _find_email_match(customers, threads[t].contact_email,
                                                 threads[t].company_name))]]
  /\ StepLeavesSelf

InitThreads ==
  /\ customers \in SharedRosters
  /\ Constructed
  /\ MatcherIdle
  /\ ScoreIdle
  /\ email_match = NoCall
  /\ threads = NoThreads
  /\ session_state = NewSession
  /\ tickets_created = 0
  /\ research = NoCall
  /\ planning = NewPlanning

NextThreads ==
  \/ \E t \in Threads, args \in CallArgs : Call(t, args[1], args[2])
  \/ \E t \in Threads : ExactStep(t)
  \/ \E t \in Threads : FuzzyStep(t)
  \/ \E t \in Threads : Line44(t)
  \/ \E t \in Threads : EmailStep(t)

SpecThreads == InitThreads /\ [][NextThreads]_vars

(***************************************************************************)
(* The workflow of the Streamlit UI: one action per button handler or      *)
(* render step that writes st.session_state                                *)
(***************************************************************************)
MaxTickets == 2
MaxRevisions == 1

get_workflow_state == session_state.workflow_state

\* render_planning_section reaches the plan: a ticket is selected and
\* research results are stored
PlanningShown ==
  /\ get_workflow_state.current_stage = "planning"
  /\ get_workflow_state.selected_ticket # None
  /\ session_state.research_results # None

\* the button of render_start_demo_button; main.py renders the context
\* section for the stage 'context' and for the stage 'closing'
StartDemo ==
  /\ get_workflow_state.current_stage \in {"context", "closing"}
  /\ session_state' = [session_state EXCEPT
       !.workflow_state = advance_to_stage(@, "ticket_input")]
  /\ UNCHANGED <<coreVars, tickets_created>>

\* a valid ticket form is submitted: a new Ticket object is selected
SubmitTicket ==
  /\ get_workflow_state.current_stage = "ticket_input"
  /\ tickets_created < MaxTickets
  /\ tickets_created' = tickets_created + 1
  /\ session_state' = [session_state EXCEPT
       !.workflow_state =
          advance_to_stage([@ EXCEPT !.selected_ticket = Some(tickets_created + 1)],
                           "research")]
  /\ UNCHANGED coreVars

\* render_research_section without stored results: conduct_research runs for
\* the selected ticket and, where its try block completes, stores the results
\* (line 120); where it raises, mock results are rendered and the session
\* state stays as it is
ConductResearch ==
  /\ get_workflow_state.current_stage = "research"
  /\ get_workflow_state.selected_ticket # None
  /\ session_state.research_results = None
  /\ session_state' = [session_state EXCEPT
       !.research_results = get_workflow_state.selected_ticket]
  /\ UNCHANGED <<coreVars, tickets_created>>

\* the 'create plan' button under the displayed research results
CreatePlan ==
  /\ get_workflow_state.current_stage = "research"
  /\ get_workflow_state.selected_ticket # None
  /\ session_state.research_results # None
  /\ session_state' = [session_state EXCEPT
       !.workflow_state = advance_to_stage(@, "planning")]
  /\ UNCHANGED <<coreVars, tickets_created>>

\* render_planning_section creates the planning state on its first render
RenderPlanning ==
  /\ PlanningShown
  /\ session_state.planning_workflow_state = None
  /\ session_state' = [session_state EXCEPT
       !.planning_workflow_state = Some(PlanningWorkflowState)]
  /\ UNCHANGED <<coreVars, tickets_created>>

\* generate_intelligent_plan: a plan for the selected ticket
GeneratePlan ==
  /\ PlanningShown
  /\ session_state.planning_workflow_state # None
  /\ session_state.planning_workflow_state.val.current_plan = None
  /\ session_state' = [session_state EXCEPT
       !.planning_workflow_state =
          Some(add_plan(@.val, [ticket |-> get_workflow_state.selected_ticket.val,
                                version |-> 1]))]
  /\ UNCHANGED <<coreVars, tickets_created>>

\* revise_plan_with_feedback: a revision of the current plan
RevisePlan ==
  /\ PlanningShown
  /\ session_state.planning_workflow_state # None
  /\ session_state.planning_workflow_state.val.current_plan # None
  /\ ~session_state.planning_workflow_state.val.plan_approved
  /\ Len(session_state.planning_workflow_state.val.revision_history) < MaxRevisions
  /\ session_state' = [session_state EXCEPT
       !.planning_workflow_state =
          Some(add_plan(@.val, [@.val.current_plan.val EXCEPT !.version = @ + 1]))]
  /\ UNCHANGED <<coreVars, tickets_created>>

\* the approve button of render_human_approval_section
ApprovePlan ==
  /\ PlanningShown
  /\ session_state.planning_workflow_state # None
  /\ session_state.planning_workflow_state.val.current_plan # None
  /\ ~session_state.planning_workflow_state.val.plan_approved
  /\ session_state' = [session_state EXCEPT
       !.planning_workflow_state = Some(approve_current_plan(@.val)),
       !.workflow_state = advance_to_stage([@ EXCEPT !.plan_approved = TRUE],
                                           "execution")]
  /\ UNCHANGED <<coreVars, tickets_created>>

\* the 'to execution' button that render_human_approval_section shows for an
\* approved planning state
ProceedToExecution ==
  /\ PlanningShown
  /\ session_state.planning_workflow_state # None
  /\ session_state.planning_workflow_state.val.current_plan # None
  /\ session_state.planning_workflow_state.val.plan_approved
  /\ session_state' = [session_state EXCEPT
       !.workflow_state = advance_to_stage(@, "execution")]
  /\ UNCHANGED <<coreVars, tickets_created>>

\* the 'close ticket' button at the end of render_execution_section
CloseTicket ==
  /\ get_workflow_state.current_stage = "execution"
  /\ get_workflow_state.selected_ticket # None
  /\ session_state.research_results # None
  /\ session_state.planning_workflow_state # None
  /\ session_state.planning_workflow_state.val.current_plan # None
  /\ session_state' = [session_state EXCEPT
       !.workflow_state = advance_to_stage(@, "closing")]
  /\ UNCHANGED <<coreVars, tickets_created>>

\* a button of the progress bar: shown for completed and available stages
Navigate(stage) ==
  /\ get_stage_status(get_workflow_state, stage) \in {"completed", "available"}
  /\ session_state' = [session_state EXCEPT
       !.workflow_state = navigate_to_stage(@, stage)]
  /\ UNCHANGED <<coreVars, tickets_created>>

\* the reset button of the sidebar
ResetWorkflow ==
  /\ session_state' = [session_state EXCEPT !.workflow_state = InitialWorkflowState]
  /\ UNCHANGED <<coreVars, tickets_created>>

InitUI ==
  /\ customers = <<>>
  /\ Constructed
  /\ MatcherIdle
  /\ ScoreIdle
  /\ email_match = NoCall
  /\ threads = NoThreads
  /\ session_state = NewSession
  /\ tickets_created = 0
  /\ research = NoCall
  /\ planning = NewPlanning

NextUI ==
  \/ StartDemo
  \/ SubmitTicket
  \/ ConductResearch
  \/ CreatePlan
  \/ RenderPlanning
  \/ GeneratePlan
  \/ RevisePlan
  \/ ApprovePlan
  \/ ProceedToExecution
  \/ CloseTicket
  \/ \E stage \in {valid_stages[i] : i \in 1..Len(valid_stages)} : Navigate(stage)
  \/ ResetWorkflow

SpecUI == InitUI /\ [][NextUI]_vars

(***************************************************************************)
(* The research orchestrator: one call of _identify_customer or of         *)
(* conduct_full_research for a ticket, against the matcher of a roster     *)
(***************************************************************************)
\* the rosters the orchestrator's matcher is constructed with
ResearchRosters == {r \in Rosters : Len(r) <= 1} \cup SharedRosters

\* tickets: customer_id is the company name, created_by a name or an e-mail
Tickets ==
  [customer_id : CompanyNames, created_by : ContactEmails,
   related_skus : {<<>>, <<"GW-300">>}]

\* what the LLM answers to the summary prompt
Responses ==
  {[tag |-> "raises"], [tag |-> "no dict"],
   [tag |-> "dict", confidence_assessment |-> "high", urgency_level |-> "low"]}

\* _identify_customer(ticket), as line 42 and the research page call it
IdentifyCustomer(ticket) ==
  /\ research = NoCall
  /\ research' = [op |-> "_identify_customer", ticket |-> ticket,
                  result |-> _identify_customer(customers, ticket)]
  /\ UNCHANGED <<matcherVars, scoreVars, email_match, threads,
                 session_state, tickets_created, planning>>

ConductFullResearch(ticket, response, failing) ==
  /\ research = NoCall
  /\ research' = [op |-> "conduct_full_research", ticket |-> ticket,
                  response |-> response, failing |-> failing,
                  result |-> conduct_full_research(customers, ticket, response, failing)]
  /\ UNCHANGED <<matcherVars, scoreVars, email_match, threads,
                 session_state, tickets_created, planning>>

InitResearch ==
  /\ customers \in ResearchRosters
  /\ Constructed
  /\ MatcherIdle
  /\ ScoreIdle
  /\ email_match = NoCall
  /\ threads = NoThreads
  /\ session_state = NewSession
  /\ tickets_created = 0
  /\ research = NoCall
  /\ planning = NewPlanning

NextResearch ==
  \/ \E ticket \in Tickets : IdentifyCustomer(ticket)
  \/ \E ticket \in Tickets, response \in Responses,
        failing \in SUBSET {"manuals", "similarity"} :
       ConductFullResearch(ticket, response, failing)

SpecResearch == InitResearch /\ [][NextResearch]_vars

(***************************************************************************)
(* A PlanningWorkflowState object under any sequence of add_plan and       *)
(* approve_current_plan calls                                              *)
(***************************************************************************)
MaxCalls == 4

\* the PlanRecommendation objects handed to add_plan
Plans == {"plan A", "plan B"}

AddPlan(plan) ==
  /\ Len(planning.calls) < MaxCalls
  /\ planning' = [self |-> add_plan(planning.self, plan),
                  calls |-> Append(planning.calls, "add_plan")]
  /\ UNCHANGED <<matcherVars, scoreVars, email_match, threads,
                 session_state, tickets_created, research>>

ApproveCurrentPlan ==
  /\ Len(planning.calls) < MaxCalls
  /\ planning' = [self |-> approve_current_plan(planning.self),
                  calls |-> Append(planning.calls, "approve_current_plan")]
  /\ UNCHANGED <<matcherVars, scoreVars, email_match, threads,
                 session_state, tickets_created, research>>

InitPlanning ==
  /\ customers = <<>>
  /\ Constructed
  /\ MatcherIdle
  /\ ScoreIdle
  /\ email_match = NoCall
  /\ threads = NoThreads
  /\ session_state = NewSession
  /\ tickets_created = 0
  /\ research = NoCall
  /\ planning = NewPlanning

NextPlanning ==
  \/ \E plan \in Plans : AddPlan(plan)
  \/ ApproveCurrentPlan

SpecPlanning == InitPlanning /\ [][NextPlanning]_vars

(***************************************************************************)
(* Properties of find_customer_match (specification Spec)                  *)
(***************************************************************************)
Called == pc = "called"
Returned == outcome.tag = "Return"

\* the company name has a character that is not whitespace
NonBlank(s) == \E i \in 1..Len(s) : ~IsSpace(s[i])

\* a name trimmed and lower-cased
Normalized(s) == Lower(Strip(s))

SetMin(S) == CHOOSE x \in S : \A y \in S : x <= y

\* roster positions whose name equals the input after trimming and lowercasing
ExactIdx == {i \in 1..Len(customers) : Normalized(customers[i].name) = Normalized(company_name)}

\* the consensus score of the input against every roster name
ConsensusScores ==
  Tuple([i \in 1..Len(customers) |->
           _calculate_consensus_score(company_name, customers[i].name)], Len(customers))

\* the earliest position holding the maximum of a non-empty tuple of scores
EarliestMax(scores) ==
  CHOOSE i \in 1..Len(scores) :
    /\ \A j \in 1..Len(scores) : FLe(scores[j], scores[i])
    /\ \A j \in 1..(i - 1) : FLt(scores[j], scores[i])

\* the tier-2 candidate exists: the best consensus score reaches 0.75
HasFuzzyCandidate(scores) ==
  Len(scores) > 0 /\ FGe(scores[EarliestMax(scores)], F_0_75)

\* the text after '@', lower-cased, of an address that has an '@'
DomainOf(email) == Lower(SplitOn(email, "@")[2])

NameSimilarity(i) == FuzzPartialRatio(Lower(company_name), Lower(customers[i].name))

\* roster positions that qualify for tier 3: same e-mail domain as the supplied
\* contact e-mail and partial name similarity of at least 50 (of 100)
EmailIdx ==
  {i \in 1..Len(customers) :
     /\ Contains(contact_email, "@")
     /\ Contains(customers[i].email, "@")
     /\ DomainOf(customers[i].email) = DomainOf(contact_email)
     /\ NameSimilarity(i) >= 50}

TierThreeConfidence(i) == FMin(F_0_9, FDiv(NameSimilarity(i) + 70, 100))

ReturnsCustomer(i) ==
  /\ Returned
  /\ outcome.val.customer_id = Some(customers[i].id)
  /\ outcome.val.customer_name = Some(customers[i].name)

ReturnsNoMatch ==
  /\ Returned
  /\ outcome.val.customer_id = None
  /\ outcome.val.confidence_score = F_0

\* C1: find_customer_match is total: every call returns a CustomerMatchResult
\* and none raises an exception.
C1_NeverRaises == Called => Returned

\* C2: with no exact match and no tier-2 candidate, a roster entry with the
\* contact e-mail's domain and partial name similarity >= 50 is returned as a
\* successful match with confidence in (0.7, 0.9].
C2_EmailUpgrade ==
  (Called /\ NonBlank(company_name) /\ ExactIdx = {}
     /\ ~HasFuzzyCandidate(ConsensusScores) /\ EmailIdx # {})
  => /\ Returned
     /\ \E i \in EmailIdx : ReturnsCustomer(i)
     /\ FGt(outcome.val.confidence_score, F_0_7)
     /\ FLe(outcome.val.confidence_score, F_0_9)

\* both a tier-2 and a tier-3 candidate exist for a call with a contact e-mail
BothCandidates(scores) ==
  /\ Called /\ NonBlank(company_name) /\ ExactIdx = {}
  /\ contact_email # <<>>
  /\ HasFuzzyCandidate(scores)
  /\ EmailIdx # {}

\* C3 as stated: when both the fuzzy and the e-mail tier produce a candidate,
\* the stronger of the two is returned; a tier-3 candidate with strictly
\* higher confidence replaces the tier-2 candidate.
C3_StrongerReturned ==
  LET scores == ConsensusScores
      f == EarliestMax(scores)
      e == SetMin(EmailIdx)
  IN BothCandidates(scores)
     => IF FGt(TierThreeConfidence(e), scores[f])
        THEN ReturnsCustomer(e) /\ outcome.val.confidence_score = TierThreeConfidence(e)
        ELSE ReturnsCustomer(f) /\ outcome.val.confidence_score = scores[f]

\* C3 amended: when both the fuzzy and the e-mail tier produce a candidate,
\* the tier-2 candidate is returned with its consensus score, also when the
\* tier-3 candidate's confidence is strictly higher.
C3_FuzzyReturned ==
  LET scores == ConsensusScores
      f == EarliestMax(scores)
  IN BothCandidates(scores)
     => ReturnsCustomer(f) /\ outcome.val.confidence_score = scores[f]

\* a call where the tier-3 candidate is another customer and strictly stronger
\* than the tier-2 candidate, and the tier-2 candidate is what is returned
C3_Witness ==
  LET scores == ConsensusScores
      f == EarliestMax(scores)
      e == SetMin(EmailIdx)
  IN /\ BothCandidates(scores)
     /\ FGt(TierThreeConfidence(e), scores[f])
     /\ customers[e].id # customers[f].id
     /\ ReturnsCustomer(f)

\* C4: every returned result is either a success (customer_id and
\* customer_name present, confidence > 0) or a failure (customer_id absent,
\* confidence 0.0), never both and never neither; match_reason is populated.
C4_SuccessXorFailure ==
  Returned =>
    LET r == outcome.val
        success == r.customer_id # None /\ r.customer_name # None
                     /\ FGt(r.confidence_score, F_0)
        failure == r.customer_id = None /\ r.confidence_score = F_0
    IN /\ success # failure
       /\ r.match_reason # ""

\* a fuzzy match with a confidence below 1.0 is returned as a success
C4_Witness ==
  /\ Returned
  /\ outcome.val.match_reason = REASON_FUZZY
  /\ outcome.val.customer_id # None
  /\ FLt(outcome.val.confidence_score, F_1)

\* C5: a non-blank input that equals a roster name after trimming and
\* lowercasing returns confidence 1.0 and the id of the first such roster
\* entry, whatever the contact e-mail and whatever the other tiers would give.
C5_ExactTier ==
  (Called /\ NonBlank(company_name) /\ ExactIdx # {})
  => /\ ReturnsCustomer(SetMin(ExactIdx))
     /\ outcome.val.confidence_score = F_1

\* the input differs from the stored name in case or whitespace, two roster
\* entries with different ids carry the name, a contact e-mail is supplied,
\* and the first entry is returned
C5_Witness ==
  /\ Called /\ NonBlank(company_name)
  /\ \E i \in ExactIdx, j \in ExactIdx :
       /\ i < j
       /\ customers[i].id # customers[j].id
       /\ customers[i].name # company_name
       /\ ReturnsCustomer(i)
  /\ Contains(contact_email, "@")
  /\ outcome.val.confidence_score = F_1

\* C6: with no exact match and no contact e-mail the call succeeds exactly
\* when the maximum consensus score is >= 0.75; the confidence is that
\* maximum and the customer is the earliest roster entry holding it.
C6_FuzzyThreshold ==
  LET scores == ConsensusScores
      f == EarliestMax(scores)
  IN (Called /\ NonBlank(company_name) /\ ExactIdx = {} /\ contact_email = <<>>)
     => IF HasFuzzyCandidate(scores)
        THEN ReturnsCustomer(f) /\ outcome.val.confidence_score = scores[f]
        ELSE ReturnsNoMatch

\* two roster entries with different ids tie at a consensus score of exactly
\* 0.75, and the earlier one is returned
C6_Witness ==
  LET scores == ConsensusScores
  IN /\ Called /\ NonBlank(company_name) /\ ExactIdx = {} /\ contact_email = <<>>
     /\ \E i \in 1..Len(scores), j \in 1..Len(scores) :
          /\ i < j
          /\ scores[i] = F_0_75 /\ scores[j] = F_0_75
          /\ customers[i].id # customers[j].id
          /\ ReturnsCustomer(i)
     /\ outcome.val.confidence_score = F_0_75

\* C10: an empty or whitespace-only company name returns the no-match result
\* with the 'no company name provided' reason for every roster and every
\* contact e-mail; no tier is consulted.
C10_EmptyInput ==
  (Called /\ ~NonBlank(company_name))
  => /\ ReturnsNoMatch
     /\ outcome.val.match_reason = REASON_NO_NAME
     /\ outcome.val.customer_name = None
     /\ outcome.val.relevant_data = None

\* a whitespace-only name, with a contact e-mail and a roster entry whose
\* e-mail has no '@' (the e-mail tier would raise on it)
C10_Witness ==
  /\ Called
  /\ company_name # <<>> /\ ~NonBlank(company_name)
  /\ Contains(contact_email, "@")
  /\ \E i \in 1..Len(customers) :
       customers[i].email # <<>> /\ ~Contains(customers[i].email, "@")
  /\ ReturnsNoMatch

\* C11: a non-blank name with no exact match, no tier-2 candidate and no
\* tier-3 candidate (or no contact e-mail) returns customer_id absent,
\* confidence 0.0 and the 'no suitable customer match found' reason, which is
\* not the reason given for an empty name.
C11_NoMatchFallback ==
  (Called /\ NonBlank(company_name) /\ ExactIdx = {}
     /\ ~HasFuzzyCandidate(ConsensusScores)
     /\ (contact_email = <<>> \/ EmailIdx = {}))
  => /\ ReturnsNoMatch
     /\ outcome.val.match_reason = REASON_NO_MATCH
     /\ REASON_NO_MATCH # REASON_NO_NAME

\* a roster e-mail that is present and has no '@'
Malformed(email) == email # <<>> /\ ~Contains(email, "@")

WellFormedEntry(customer) == ~Malformed(customer.email)

\* C12: when the e-mail tier scans the roster, an entry whose contact e-mail
\* is non-empty but has no '@' is skipped and the scan goes on with the other
\* entries: the call does not fail, and its outcome is the outcome for the
\* roster without the malformed entries.
C12_MalformedEmailSkipped ==
  (Called /\ NonBlank(company_name) /\ ExactIdx = {}
     /\ ~HasFuzzyCandidate(ConsensusScores)
     /\ Contains(contact_email, "@")
     /\ \E i \in 1..Len(customers) : Malformed(customers[i].email))
  => /\ ~(outcome.tag = "Raise" /\ outcome.exc = "IndexError")
     /\ outcome = find_customer_match(SelectSeq(customers, WellFormedEntry),
                                      company_name, contact_email)

\* C13: a confidence of 1.0 is returned only for an input that equals a roster
\* name after trimming and lowercasing, never by the fuzzy or e-mail tier; a
\* confidence of 0.0 always comes with customer_id absent.
C13_ReservedConfidences ==
  Returned =>
    /\ outcome.val.confidence_score = F_1 => (ExactIdx # {} /\ NonBlank(company_name))
    /\ outcome.val.confidence_score = F_0 => outcome.val.customer_id = None

\* C15: the e-mail tier is attempted only for a contact e-mail that contains
\* '@': a call with an empty contact e-mail or with one without '@' returns
\* what the call without contact e-mail returns.
C15_EmailNeedsAt ==
  (Called /\ (contact_email = <<>> \/ ~Contains(contact_email, "@")))
  => outcome = find_customer_match(customers, company_name, <<>>)

\* a contact e-mail without '@' is supplied, no exact match and no tier-2
\* candidate exist, a roster entry with a well-formed e-mail is similar enough
\* in name for tier 3, and the no-match result is returned
C15_Witness ==
  /\ Called /\ NonBlank(company_name) /\ ExactIdx = {}
  /\ contact_email # <<>> /\ ~Contains(contact_email, "@")
  /\ ~HasFuzzyCandidate(ConsensusScores)
  /\ \E i \in 1..Len(customers) :
       Contains(customers[i].email, "@") /\ NameSimilarity(i) >= 50
  /\ ReturnsNoMatch

\* the stoplist of the partial-match heuristic
Stoplist == {<<"g","m","b","h">>, <<"a","g">>, <<"k","g">>,
             <<"m","a","s","c","h","i","n","e","n","b","a","u">>,
             <<"l","a","b","o","r","a","t","o","r","i","e","n">>,
             <<"l","a","b","s">>,
             <<"i","n","d","u","s","t","r","i","e","s">>}

\* the legal forms, the multi-word ones first
LegalFormsLongestFirst == <<
  <<"g","m","b","h"," ","&"," ","c","o","."," ","k","g">>,
  <<"g","m","b","h"," ","&"," ","c","o"," ","k","g">>,
  <<"k","g","a","a">>, <<"g","m","b","h">>, <<"a","g">>, <<"k","g">>, <<"o","h","g">>, <<"g","b","r">>,
  <<"u","g">>, <<"e","g">>, <<"e","v">>, <<"s","e">> >>

\* a trimmed, lower-cased name without its trailing legal form
RECURSIVE WithoutFormFrom(_, _)
WithoutFormFrom(name_lower, k) ==
  IF k > Len(LegalFormsLongestFirst) THEN name_lower
  ELSE IF EndsWith(name_lower, <<" ">> \o LegalFormsLongestFirst[k])
  THEN Strip(Slice(name_lower, 1, Len(name_lower) - Len(LegalFormsLongestFirst[k]) - 1))
  ELSE WithoutFormFrom(name_lower, k + 1)

WithoutLegalForm(name) == WithoutFormFrom(Normalized(name), 1)

\* roster positions whose name differs from the input at most by case and by
\* the trailing legal form
SameButFormIdx ==
  {i \in 1..Len(customers) :
     WithoutLegalForm(customers[i].name) = WithoutLegalForm(company_name)}

Letters(s) == {Lower(s)[k] : k \in 1..Len(s)} \ {" "}

\* the input shares no letter with any roster name
Unrelated ==
  \A i \in 1..Len(customers) : Letters(company_name) \cap Letters(customers[i].name) = {}

\* C18: an input that differs from a roster name only by case and by a missing
\* or different trailing legal form, with a non-stoplisted word in the common
\* part, and that is no exact match, is resolved to that entry with confidence
\* >= 0.75 when no other entry has the same core name; an input unrelated to
\* every roster name returns confidence 0.0 with customer_id absent.
C18_SuffixInsensitive ==
  /\ (Called /\ NonBlank(company_name) /\ ExactIdx = {}
        /\ Cardinality(SameButFormIdx) = 1
        /\ WordSet(WithoutLegalForm(company_name)) \ Stoplist # {})
     => /\ ReturnsCustomer(SetMin(SameButFormIdx))
        /\ FGe(outcome.val.confidence_score, F_0_75)
  /\ (Called /\ NonBlank(company_name) /\ Unrelated) => ReturnsNoMatch

C25_EmailTierWithoutCandidate ==
  \A t \in Threads :
    /\ threads[t].pc = "email" => threads[t].fuzzy_match = None
    /\ threads[t].fuzzy_match # None =>
         /\ FGe(threads[t].fuzzy_match.val.confidence_score, F_0_75)
         /\ FuzzyIsReturned(threads[t].fuzzy_match)
         /\ threads[t].pc = "returned" => threads[t].outcome = Return(threads[t].fuzzy_match)

\* one thread evaluates the e-mail tier, without a tier-2 candidate, while the
\* other has returned a tier-2 candidate weaker than the tier-3 cap from a
\* call that carried a contact e-mail
C25_Witness ==
  /\ threads["t1"].pc = "email" /\ threads["t1"].fuzzy_match = None
  /\ threads["t2"].pc = "returned"
  /\ threads["t2"].contact_email # <<>>
  /\ threads["t2"].fuzzy_match # None
  /\ FLt(threads["t2"].fuzzy_match.val.confidence_score, F_0_9)
  /\ threads["t2"].outcome = Return(threads["t2"].fuzzy_match)

C16_EmailCandidateRule ==
  email_match # NoCall =>
    IF EmailIdx = {} THEN email_match = None
    ELSE /\ email_match.tag = "Some"
         /\ email_match.val.customer_id = Some(customers[SetMin(EmailIdx)].id)
         /\ email_match.val.confidence_score = TierThreeConfidence(SetMin(EmailIdx))

\* C26: every candidate of _find_email_match has confidence exactly 0.9,
\* whatever the name similarity (50..100) of the entry it was built from.
C26_EmailConfidenceConstant ==
  (email_match # NoCall /\ email_match.tag = "Some")
  => email_match.val.confidence_score = F_0_9

\* a candidate built from an entry whose name similarity is below 70, where
\* (similarity + 70) / 100 is below 1.4
C26_Witness ==
  /\ email_match # NoCall /\ email_match.tag = "Some"
  /\ EmailIdx # {}
  /\ NameSimilarity(SetMin(EmailIdx)) < 70
  /\ email_match.val.customer_id = Some(customers[SetMin(EmailIdx)].id)
  /\ email_match.val.confidence_score = F_0_9

(***************************************************************************)
(* Properties of _calculate_consensus_score (specification SpecScore)      *)
(***************************************************************************)
MaxPad == 10

ScoreReturned == consensus_score.tag = "Return"

core1 == _extract_core_company_name(name1)
core2 == _extract_core_company_name(name2)

\* the three metrics of the two core names, on the 0..100 scale
MetricsOf(c1, c2) ==
  <<FuzzRatio(Lower(c1), Lower(c2)),
    FuzzPartialRatio(Lower(c1), Lower(c2)),
    FuzzTokenSortRatio(Lower(c1), Lower(c2))>>

\* how many of the three metrics are at least 0.6
HighCount(m) == Cardinality({i \in 1..3 : m[i] >= 60})

\* the word set of a core name without the stoplist
FilteredWords(c) == WordSet(Lower(c)) \ Stoplist

NoSharedWord(c1, c2) ==
  \/ FilteredWords(c1) = {}
  \/ FilteredWords(c2) = {}
  \/ FilteredWords(c1) \cap FilteredWords(c2) = {}

\* the length-penalty multiplier as a function of the two lengths, with the
\* ratio min/max compared exactly
Multiplier(len1, len2) ==
  IF len1 = 0 \/ len2 = 0 THEN F_0_5
  ELSE IF 10 * Min(len1, len2) >= 7 * Max(len1, len2) THEN F_1
  ELSE IF 2 * Min(len1, len2) >= Max(len1, len2) THEN F_0_85
  ELSE F_0_6

\* 0.4*ratio + 0.3*partial + 0.3*token_sort of metrics on the 0..1 scale
Weighted(m) ==
  FAdd(FAdd(FMul(F_0_4, FDiv(m[1], 100)), FMul(F_0_3, FDiv(m[2], 100))),
       FMul(F_0_3, FDiv(m[3], 100)))

\* a core name of n characters
Pad(n) == [i \in 1..n |-> "a"]

\* C7: if fewer than two of the three metrics are >= 0.6, the consensus score
\* is 0.0, however high the weighted average of the three is.
C7_ConsensusGate ==
  ScoreReturned =>
    LET m == MetricsOf(core1, core2)
    IN HighCount(m) < 2 => consensus_score.val = F_0

\* exactly one metric is >= 0.6, the weighted average is at least 0.6, and
\* the score is 0.0
C7_Witness ==
  /\ ScoreReturned
  /\ LET m == MetricsOf(core1, core2)
     IN /\ HighCount(m) = 1
        /\ 40 * m[1] + 30 * m[2] + 30 * m[3] >= 6000
  /\ consensus_score.val = F_0

\* C8: when the partial ratio is >= 0.7 and the core names' word sets without
\* the stoplist are empty or disjoint, the consensus score is 0.0 even if the
\* gate passed; when the partial ratio is < 0.7 the heuristic does not reject
\* (a pair that passes the gate keeps a positive score).
C8_PartialMatchRejection ==
  ScoreReturned =>
    LET m == MetricsOf(core1, core2)
    IN /\ (m[2] >= 70 /\ NoSharedWord(core1, core2)) => consensus_score.val = F_0
       /\ (m[2] < 70 /\ HighCount(m) >= 2) => FGt(consensus_score.val, F_0)

\* the gate passed with a weighted average of at least 0.75, the partial ratio
\* is >= 0.7, one filtered word set is empty only because of the stoplist, and
\* the score is 0.0
C8_Witness ==
  /\ ScoreReturned
  /\ LET m == MetricsOf(core1, core2)
     IN /\ HighCount(m) >= 2
        /\ m[2] >= 70
        /\ 40 * m[1] + 30 * m[2] + 30 * m[3] >= 7500
  /\ WordSet(Lower(core1)) \cap WordSet(Lower(core2)) # {}
  /\ NoSharedWord(core1, core2)
  /\ consensus_score.val = F_0

C17_MultiWordFormsFirst ==
  ScoreReturned =>
    \A k \in 1..2 :
      EndsWith(Normalized(name1), <<" ">> \o LegalFormsLongestFirst[k])
        => core1 = Title(Strip(Slice(Normalized(name1), 1,
                     Len(Normalized(name1)) - Len(LegalFormsLongestFirst[k]) - 1)))

AcmeLabs == <<"A","c","m","e"," ","L","a","b","s"," ","G","m","b","H">>
AcmeMaschinenbau == <<"A","c","m","e"," ","M","a","s","c","h","i","n","e","n","b","a","u"," ","G","m","b","H">>

\* C19: the consensus score of 'Acme Labs GmbH' against 'Acme Maschinenbau
\* GmbH' is 0.0: the two names, which share only the word 'Acme' besides
\* stoplisted words, never form a tier-2 candidate.
C19_AcmeLabsRejected ==
  (ScoreReturned /\ {name1, name2} = {AcmeLabs, AcmeMaschinenbau})
  => consensus_score.val = F_0

\* the score of 'Acme Labs GmbH' against 'Acme Maschinenbau GmbH' has been
\* computed; the core names share exactly one word that is not stoplisted
C19_Witness ==
  /\ ScoreReturned
  /\ name1 = AcmeLabs /\ name2 = AcmeMaschinenbau
  /\ Cardinality(FilteredWords(core1) \cap FilteredWords(core2)) = 1
  /\ FilteredWords(core1) = FilteredWords(core2)
  /\ consensus_score.val = F_0

\* the last whitespace-separated word of a name, lower-cased (<<>> if none)
LastWord(name) ==
  LET words == Split(Lower(name))
  IN IF words = <<>> THEN <<>> ELSE words[Len(words)]

ListedWords ==
  {legal_forms[k] : k \in 1..Len(legal_forms)} \cup {suffixes[k] : k \in 1..Len(suffixes)}

\* C29: a legal form is removed only as a separate trailing word: for a name
\* whose last word is neither a listed legal form nor a listed descriptor the
\* core name equals the name apart from case and surrounding whitespace.
C29_OnlySeparateWordStripped ==
  (ScoreReturned /\ LastWord(name1) # <<>> /\ LastWord(name1) \notin ListedWords)
  => Lower(core1) = Normalized(name1)

\* C30: _extract_core_company_name is idempotent: the core name of a core name
\* is that core name.
C30_ExtractIdempotent ==
  ScoreReturned => _extract_core_company_name(core1) = core1

(***************************************************************************)
(* Properties of the research orchestrator (specification SpecResearch)    *)
(***************************************************************************)
IdentifyCalled == research # NoCall /\ research.op = "_identify_customer"
FullResearchCalled == research # NoCall /\ research.op = "conduct_full_research"

\* what the matcher answers to the call of line 108
MatcherAnswer ==
  find_customer_match(customers, research.ticket.customer_id,
                      IF Contains(research.ticket.created_by, "@")
                      THEN research.ticket.created_by ELSE <<>>)

\* C21: _identify_customer never raises. It passes created_by as the contact
\* e-mail only when it contains '@' (and "" otherwise); what the matcher
\* returns is returned unchanged, and where the matcher raises the result has
\* no customer_id, confidence 0.0 and a reason that carries the error. So the
\* caller gets a match (customer_id set) or the state without a customer
\* (customer_id absent, confidence 0.0).
C21_IdentifyNeverRaises ==
  IdentifyCalled =>
    /\ research.result.tag = "Return"
    /\ MatcherAnswer.tag = "Return" => research.result = MatcherAnswer
    /\ MatcherAnswer.tag = "Raise" =>
         /\ research.result.val.customer_id = None
         /\ research.result.val.confidence_score = F_0
         /\ research.result.val.match_reason =
              "Error during customer identification: " \o StrOfException(MatcherAnswer.exc)
    /\ \/ research.result.val.customer_id # None
       \/ research.result.val.confidence_score = F_0

\* the matcher raised (a contact e-mail with '@' was passed on) and the
\* caller got the result without a customer
C21_Witness ==
  /\ IdentifyCalled
  /\ Contains(research.ticket.created_by, "@")
  /\ MatcherAnswer.tag = "Raise"
  /\ research.result.tag = "Return"
  /\ research.result.val.customer_id = None

\* C22: conduct_full_research always returns a FullResearchResult and never
\* raises, whichever step fails, the summary generation and the fallback
\* ResearchSummary included.
C22_FullResearchReturns ==
  FullResearchCalled => research.result.tag = "Return"


(***************************************************************************)
(* Properties of the consensus score for any metric values (specification  *)
(* SpecMetrics)                                                            *)
(***************************************************************************)
ShorterLen == Min(Len(name1), Len(name2))
LongerLen == Max(Len(name1), Len(name2))

\* line 90: the fuzzy tier takes the pair as its candidate
Accepted == FuzzyCandidate(<<[id |-> "C1", name |-> name2, email |-> <<>>]>>,
                           <<consensus_score.val, 1>>) # None

\* 0.4*ratio + 0.3*partial + 0.3*token_sort >= 0.75/0.85, in hundredths of
\* the integer metrics: 17 * (40r + 30p + 30t) >= 15 * 10000
WeightedReachesQuotient ==
  17 * (40 * metric_scores[1] + 30 * metric_scores[2] + 30 * metric_scores[3]) >= 150000

\* C27: whatever the three metric values are, a pair with an empty core name
\* or with a length ratio below 0.5 scores at most 0.6 and is never accepted
\* by the fuzzy tier (threshold 0.75); a pair with a length ratio in
\* [0.5, 0.7) is accepted only if its weighted combination is at least
\* 0.75/0.85.
C27_LengthPenaltyBlocks ==
  ScoreReturned =>
    /\ (ShorterLen = 0 \/ 2 * ShorterLen < LongerLen) =>
         /\ FLe(consensus_score.val, F_0_6)
         /\ ~Accepted
    /\ (ShorterLen > 0 /\ 2 * ShorterLen >= LongerLen /\ 10 * ShorterLen < 7 * LongerLen) =>
         (Accepted => WeightedReachesQuotient)

\* a pair with a length ratio below 0.5 whose three metrics are all 1.0
\* scored exactly 0.6
C27_Witness ==
  /\ ScoreReturned
  /\ ShorterLen > 0
  /\ 2 * ShorterLen < LongerLen
  /\ metric_scores = <<100, 100, 100>>
  /\ consensus_score.val = F_0_6

\* a pair with a length ratio in [0.5, 0.7) was accepted
C27_WitnessAccepted ==
  /\ ScoreReturned
  /\ ShorterLen > 0 /\ 2 * ShorterLen >= LongerLen /\ 10 * ShorterLen < 7 * LongerLen
  /\ Accepted
  /\ metric_scores[1] < 100

(***************************************************************************)
(* Properties of PlanningWorkflowState (specification SpecPlanning)        *)
(***************************************************************************)
AddPlanCalls == {i \in 1..Len(planning.calls) : planning.calls[i] = "add_plan"}

\* approve_current_plan was called after the most recent add_plan
ApprovedSinceLastAdd ==
  /\ AddPlanCalls # {}
  /\ \E i \in 1..Len(planning.calls) :
       /\ planning.calls[i] = "approve_current_plan"
       /\ \A j \in AddPlanCalls : j < i

\* C23: after any sequence of add_plan and approve_current_plan calls,
\* plan_approved is true only if current_plan is set and approve_current_plan
\* was called after the most recent add_plan (and it is true then); once a
\* plan exists, get_revision_count is the number of add_plan calls minus one.
C23_ApprovalNotCarriedOver ==
  /\ planning.self.plan_approved <=>
       (planning.self.current_plan # None /\ ApprovedSinceLastAdd)
  /\ planning.self.current_plan # None <=> AddPlanCalls # {}
  /\ planning.self.current_plan # None =>
       get_revision_count(planning.self) = Cardinality(AddPlanCalls) - 1

\* a plan was approved and then replaced by add_plan: the new current plan is
\* not approved and the approved plan is in the history
C23_Witness ==
  /\ Len(planning.calls) >= 3
  /\ planning.calls[Len(planning.calls)] = "add_plan"
  /\ planning.calls[Len(planning.calls) - 1] = "approve_current_plan"
  /\ planning.calls[Len(planning.calls) - 2] = "add_plan"
  /\ ~planning.self.plan_approved
  /\ get_revision_count(planning.self) >= 1

\* each add_plan clears plan_approved and appends the plan that was current
\* (if any) to revision_history
C23_AddPlanStep ==
  [][\A plan \in Plans : AddPlan(plan) =>
       /\ ~planning'.self.plan_approved
       /\ planning'.self.current_plan = Some(plan)
       /\ planning'.self.revision_history =
            IF planning.self.current_plan # None
            THEN Append(planning.self.revision_history, planning.self.current_plan.val)
            ELSE planning.self.revision_history]_vars

(***************************************************************************)
(* Properties of the stage gating (specification SpecUI)                   *)
(***************************************************************************)
Stages == {valid_stages[i] : i \in 1..Len(valid_stages)}

\* the position of a stage in the order context, ticket_input, research,
\* planning, execution, closing
Position(stage) ==
  CASE stage = "context" -> 0
    [] stage = "ticket_input" -> 1
    [] stage = "research" -> 2
    [] stage = "planning" -> 3
    [] stage = "execution" -> 4
    [] stage = "closing" -> 5

\* a completed stage, the current stage, or the immediate successor of a
\* completed current stage
MayNavigateTo(stage) ==
  \/ stage \in get_workflow_state.completed_stages
  \/ stage = get_workflow_state.current_stage
  \/ /\ get_workflow_state.current_stage \in get_workflow_state.completed_stages
     /\ Position(stage) = Position(get_workflow_state.current_stage) + 1

\* C24: every stage that precedes current_stage in the order of the stages is
\* in completed_stages; navigate_to_stage changes current_stage (and nothing
\* else) to a completed stage, the current stage or the immediate successor
\* of a completed current stage, and leaves the workflow state unchanged for
\* any other stage.
C24_StageGating ==
  /\ \A stage \in Stages :
       Position(stage) < Position(get_workflow_state.current_stage)
         => stage \in get_workflow_state.completed_stages
  /\ \A stage \in Stages :
       navigate_to_stage(get_workflow_state, stage) =
         IF MayNavigateTo(stage)
         THEN [get_workflow_state EXCEPT !.current_stage = stage]
         ELSE get_workflow_state

\* after a backward navigation from the planning stage: research is current
\* and completed, planning is the available successor, and navigate_to_stage
\* refuses execution
C24_Witness ==
  /\ get_workflow_state.current_stage = "research"
  /\ get_workflow_state.completed_stages = {"context", "ticket_input", "research"}
  /\ navigate_to_stage(get_workflow_state, "planning").current_stage = "planning"
  /\ navigate_to_stage(get_workflow_state, "execution") = get_workflow_state
  /\ get_stage_status(get_workflow_state, "execution") = "locked"

\* the buttons of the progress bar lead only where navigate_to_stage allows
C24_NavigateStep ==
  [][\A stage \in Stages : Navigate(stage) =>
       /\ MayNavigateTo(stage)
       /\ get_workflow_state' = [get_workflow_state EXCEPT !.current_stage = stage]]_vars

====
